---- MODULE Spec2Model ----
(***************************************************************************)
(* Model of backend/app.py: the persisted chunk store (ChromaDB),          *)
(* document ingestion, the chat request handler, the remote completion     *)
(* call and the reset endpoint.                                            *)
(*                                                                         *)
(* Text is a sequence of one-character strings, so that slicing and        *)
(* strip() are computed as Python computes them.  The texts the state      *)
(* holds (the document, the stored chunks, the context) are kept           *)
(* run-length encoded: a run [c |-> "a", n |-> 1000] stands for 1000       *)
(* characters "a"; Unpack gives the characters and Pack the runs.          *)
(* A message built by an f-string is the sequence of its pieces.           *)
(***************************************************************************)
EXTENDS Integers, Sequences, FiniteSets, TLC

VARIABLES
    doc,                \* content of MLTrainingDoc.txt, or NoDoc when the file is absent
    DEEPSEEK_API_KEY,   \* the environment variable read by os.getenv
    dirExists,          \* os.path.exists(chroma_path)
    persisted,          \* the collection persisted under chroma_db, or NoCollection
    staleDocs,          \* records of the collection last removed from disk, which a
                        \* handle obtained before the removal may still serve from memory
    chroma_collection,  \* the module-level global
    startPc,            \* position in the module-level startup code
    setupLog,           \* the message setup_chromadb printed last
    loadLog,            \* the message load_document_to_chroma printed last
    resetPc,            \* position of the reset_chroma handler
    resetLocal,         \* value returned by setup_chromadb, not yet assigned to the global
    resetResult,        \* the JSON reset_chroma returned
    chatPc,             \* position of the chat handler
    data,               \* what request.get_json() yields for the request in flight
    question,           \* data.get('question', '')
    results,            \* what chroma_collection.query returned
    context,            \* the local variable context
    remote,             \* what the remote endpoint did for this request
    requestsIssued,     \* number of requests.post calls made by ask_deepseek for this request
    answer,             \* the value ask_deepseek returned
    chatResult,         \* the JSON chat returned
    cText,              \* chunking in isolation: the text
    cSize,              \* chunking in isolation: the chunk size
    cChunks,            \* chunking in isolation: the chunks produced
    cPhase              \* chunking in isolation: "off", "input" or "done"

storeVars == <<dirExists, persisted, staleDocs, chroma_collection>>
logVars   == <<setupLog, loadLog>>
resetVars == <<resetPc, resetLocal, resetResult>>
chatVars  == <<chatPc, data, question, results, context, remote, requestsIssued,
               answer, chatResult>>
chunkVars == <<cText, cSize, cChunks, cPhase>>
envVars   == <<doc, DEEPSEEK_API_KEY>>
vars == <<envVars, storeVars, startPc, logVars, resetVars, chatVars, chunkVars>>

----------------------------------------------------------------------------
(* Bounds of the model *)

\* longest text chunked in isolation
MaxLen == 5
\* largest chunk size used when chunking in isolation
MaxSize == 3
\* length of the fixture document without blank stretches
FixtureLen == 2500
\* length of the trailing part of the fixture document with a blank slice
TailLen == 300

(* Program constants *)

chunk_size == 1000
n_results == 3

----------------------------------------------------------------------------
(* Values *)

None == "None"

\* the source file: absent, or present with its content
NoDoc == [exists |-> FALSE, content |-> <<>>]
Document(content) == [exists |-> TRUE, content |-> content]

\* the collection andy_knowledge_base on disk: absent, or present with its records
NoCollection == [exists |-> FALSE, records |-> <<>>]
Collection(records) == [exists |-> TRUE, records |-> records]

\* the key 'question' of the request body: absent, or present with its value
Missing == [present |-> FALSE, text |-> <<>>]
Given(text) == [present |-> TRUE, text |-> text]

\* characters str.strip() removes
Whitespace == {" ", "\n", "\t"}
Alphabet == {"a", "b", " ", "\n"}

Min(a, b) == IF a < b THEN a ELSE b

----------------------------------------------------------------------------
(* Text operations *)

\* chunk.strip() is falsy
IsBlank(t) == \A i \in 1..Len(t) : t[i] \in Whitespace

\* content[i:i+size] with i counted from 0
Slice(t, i, size) == SubSeq(t, i + 1, Min(i + size, Len(t)))

\* range(0, len(content), size)
SliceStarts(t, size) == [k \in 1..((Len(t) + size - 1) \div size) |-> (k - 1) * size]

\* chunking without the filter: what a bug dropping line 160 would compute
ChunkKeepBlank(t, size) ==
    LET starts == SliceStarts(t, size)
    IN  [k \in 1..Len(starts) |-> Slice(t, starts[k], size)]

\* lines 159-160
Chunk(t, size) ==
    LET starts == SliceStarts(t, size)
        raw == [k \in 1..Len(starts) |-> Slice(t, starts[k], size)]
    IN  SelectSeq(raw, LAMBDA c : ~IsBlank(c))

RECURSIVE Concat(_)
Concat(ss) == IF ss = <<>> THEN <<>> ELSE Head(ss) \o Concat(Tail(ss))

----------------------------------------------------------------------------
(* Run-length encoded text *)

Run(c, n) == [c |-> c, n |-> n]

\* number of characters in the first k runs
RECURSIVE RunEnd(_, _)
RunEnd(p, k) == IF k = 0 THEN 0 ELSE RunEnd(p, k - 1) + p[k].n

\* the characters of a run-length encoded text
Unpack(p) ==
    [i \in 1..RunEnd(p, Len(p)) |->
        p[CHOOSE k \in 1..Len(p) : RunEnd(p, k - 1) < i /\ i <= RunEnd(p, k)].c]

\* the runs of a text: maximal stretches of one character
Pack(t) ==
    LET starts == {i \in 1..Len(t) : i = 1 \/ t[i] # t[i - 1]}
        m == Cardinality(starts)
        first(k) == CHOOSE b \in starts : Cardinality({x \in starts : x < b}) = k - 1
        last(k) == IF k = m THEN Len(t) ELSE first(k + 1) - 1
    IN  [k \in 1..m |-> Run(t[first(k)], last(k) - first(k) + 1)]

\* p + q on run-length encoded texts
Cat(p, q) ==
    IF p = <<>> THEN q
    ELSE IF q = <<>> THEN p
    ELSE IF p[Len(p)].c = q[1].c
         THEN SubSeq(p, 1, Len(p) - 1) \o <<Run(q[1].c, p[Len(p)].n + q[1].n)>> \o Tail(q)
         ELSE p \o q

\* "\n".join(texts)
RECURSIVE Join(_)
Join(texts) ==
    IF texts = <<>> THEN <<>>
    ELSE IF Len(texts) = 1 THEN texts[1]
    ELSE Cat(Cat(texts[1], <<Run("\n", 1)>>), Join(Tail(texts)))

----------------------------------------------------------------------------
(* The source document *)

\* a document whose every slice carries text; consecutive slices differ
DocFull ==
    Pack([i \in 1..FixtureLen |-> IF ((i - 1) \div chunk_size) % 2 = 0 THEN "a" ELSE "b"])

\* a document of five slices whose second slice is whitespace only
DocGap ==
    <<Run("a", chunk_size), Run(" ", chunk_size), Run("b", chunk_size),
      Run("a", chunk_size), Run("b", TailLen)>>

\* a document of whitespace only
DocBlank == <<Run(" ", 1), Run("\n", 1), Run(" ", 1)>>

Docs == {NoDoc, Document(DocBlank), Document(DocGap), Document(DocFull)}

\* lines 153-160 for each document: no chunks when content.strip() is empty,
\* else the chunks of the content
DocChunks ==
    [d \in Docs |->
        LET content == Unpack(d.content)
        IN  IF IsBlank(content) THEN <<>>
            ELSE LET chunks == Chunk(content, chunk_size)
                 IN  [k \in 1..Len(chunks) |-> Pack(chunks[k])]]

ApiKeys == {None, "", "sk-live"}

----------------------------------------------------------------------------
(* The chunk store *)

\* f"chunk_{i}"
ChunkId(i) == <<"chunk_", i>>

Ids(records) == {records[k].id : k \in 1..Len(records)}
Texts(records) == {records[k].document : k \in 1..Len(records)}

\* collection.add(documents, ids), the first `written` of them
Add(records, documents, ids, written) ==
    records \o [k \in 1..written |-> [id |-> ids[k], document |-> documents[k]]]

\* outcomes of the store calls made by load_document_to_chroma: no fault, get()
\* raises, or add() raises having written some of the records
LoadFaults(n) ==
    {[op |-> "none", written |-> n], [op |-> "get", written |-> 0]}
        \cup {[op |-> "add", written |-> w] : w \in 0..(n - 1)}

NumChunks(d) == IF d = NoDoc THEN 0 ELSE Len(DocChunks[d])

\* load_document_to_chroma without the test of existing_ids: what a bug
\* dropping line 165 would do (the store keeps the first record of an id)
LoadDocumentUnguarded(records, d, fault) ==
    IF d = NoDoc THEN [records |-> records, log |-> "not_found"]
    ELSE IF DocChunks[d] = <<>> THEN [records |-> records, log |-> "empty"]
    ELSE LET chunks == DocChunks[d]
             ids == [i \in 1..Len(chunks) |-> ChunkId(i - 1)]
             added == Add(<<>>, chunks, ids, fault.written)
             fresh == SelectSeq(added, LAMBDA r : r.id \notin Ids(records))
         IN  IF fault.op = "get" THEN [records |-> records, log |-> "error_adding"]
             ELSE [records |-> records \o fresh,
                   log |-> IF fault.op = "add" THEN "error_adding" ELSE "loaded"]

\* load_document_to_chroma with ids numbered from 1: what an off-by-one in
\* line 166 would do
LoadDocumentFromOne(records, d, fault) ==
    IF d = NoDoc THEN [records |-> records, log |-> "not_found"]
    ELSE IF DocChunks[d] = <<>> THEN [records |-> records, log |-> "empty"]
    ELSE LET chunks == DocChunks[d]
             ids == [i \in 1..Len(chunks) |-> ChunkId(i)]
         IN  IF fault.op = "get" THEN [records |-> records, log |-> "error_adding"]
             ELSE IF records = <<>>
                  THEN [records |-> Add(records, chunks, ids, fault.written),
                        log |-> IF fault.op = "add" THEN "error_adding" ELSE "loaded"]
                  ELSE [records |-> records, log |-> "already_loaded"]

\* load_document_to_chroma(collection): the records of the collection after
\* the call and the message printed
LoadDocument(records, d, fault) ==
    IF d = NoDoc THEN [records |-> records, log |-> "not_found"]
    ELSE IF DocChunks[d] = <<>> THEN [records |-> records, log |-> "empty"]
    ELSE LET chunks == DocChunks[d]
             ids == [i \in 1..Len(chunks) |-> ChunkId(i - 1)]
         IN  IF fault.op = "get" THEN [records |-> records, log |-> "error_adding"]
             ELSE IF records = <<>>
                  THEN [records |-> Add(records, chunks, ids, fault.written),
                        log |-> IF fault.op = "add" THEN "error_adding" ELSE "loaded"]
                  ELSE [records |-> records, log |-> "already_loaded"]

\* outcomes of the filesystem and store calls made by setup_chromadb
SetupEnvs == [rmtreeOk : BOOLEAN, clientOk : BOOLEAN, fallbackOk : BOOLEAN]

\* setup_chromadb(): the directory and collection after the call, whether the
\* directory was removed, the value returned and the message printed
SetupChromadb(exists, coll, env) ==
    LET wiped == exists /\ env.rmtreeOk
        exists1 == exists /\ ~wiped
        coll1 == IF wiped THEN NoCollection ELSE coll
    IN  IF env.clientOk
        THEN IF coll1 # NoCollection
             THEN [dirExists |-> TRUE, persisted |-> coll1, wiped |-> wiped,
                   handle |-> "attached", log |-> "connected_existing"]
             ELSE [dirExists |-> TRUE, persisted |-> Collection(<<>>), wiped |-> wiped,
                   handle |-> "attached", log |-> "created_new"]
        ELSE IF env.fallbackOk /\ coll1 = NoCollection
             THEN [dirExists |-> TRUE, persisted |-> Collection(<<>>), wiped |-> wiped,
                   handle |-> "attached", log |-> "created_after_error"]
             ELSE [dirExists |-> exists1, persisted |-> coll1, wiped |-> wiped,
                   handle |-> None, log |-> "failed"]

\* the records a handle obtained before the removal of the directory may still see
AfterWipe(coll, stale) == IF coll = NoCollection THEN stale ELSE coll.records

\* a handle to the collection on disk no longer refers to it once the directory is removed
Dangle(handle) == IF handle = "attached" THEN "dangling" ELSE handle

----------------------------------------------------------------------------
(* Retrieval *)

\* the documents chroma_collection.query(query_texts, n_results) may return for
\* a collection holding `records`: min(n_results, count) of them, in the order
\* the index ranks them
QueryResults(records) ==
    LET m == Min(n_results, Len(records))
        picks == {f \in [1..m -> 1..Len(records)] :
                     \A i, j \in 1..m : i # j => f[i] # f[j]}
    IN  {[i \in 1..m |-> records[f[i]].document] : f \in picks}

Raised == [raised |-> TRUE, documents |-> <<>>]
NoResults == [raised |-> FALSE, documents |-> <<>>]
Returned(documents) == [raised |-> FALSE, documents |-> documents]

\* what the call at line 286 may do, by the value of the global it reads
QueryOutcomes(handle, coll, stale) ==
    IF handle = None THEN {Raised}
    ELSE IF handle = "attached"
         THEN {Raised} \cup {Returned(ds) : ds \in QueryResults(coll.records)}
         ELSE {Raised} \cup {Returned(ds) : ds \in QueryResults(stale)}
                  \cup (IF coll = NoCollection THEN {}
                        ELSE {Returned(ds) : ds \in QueryResults(coll.records)})

\* lines 285-298 without the try: a failing query leaves the handler's body
RetrieveUnguarded(result) ==
    IF result.raised THEN [raised |-> TRUE, context |-> <<>>]
    ELSE IF result.documents = <<>> THEN [raised |-> FALSE, context |-> <<>>]
    ELSE [raised |-> FALSE, context |-> Join(result.documents)]

\* lines 285-298: whether an exception leaves the block, and the value of
\* context after it
Retrieve(result) ==
    IF result.raised THEN [raised |-> FALSE, context |-> <<>>]
    ELSE IF result.documents = <<>> THEN [raised |-> FALSE, context |-> <<>>]
    ELSE [raised |-> FALSE, context |-> Join(result.documents)]

----------------------------------------------------------------------------
(* The remote completion call *)

Str(pieces) == [type |-> "str", value |-> pieces]
PyNone == [type |-> "NoneType", value |-> <<>>]
Unset == [type |-> "unset", value |-> <<>>]

Completion == <<"I am Andy.">>

\* what the remote endpoint may do with a request
Remotes ==
    {[transport |-> t, status |-> 0, body |-> "none"] : t \in {"timeout", "connection_error"}}
        \cup {[transport |-> "ok", status |-> 200, body |-> b] :
                 b \in {"content_str", "content_null", "no_choices", "not_json"}}
        \cup {[transport |-> "ok", status |-> st, body |-> "error_text"] :
                 st \in {401, 429, 500}}
NotCalled == [transport |-> "none", status |-> 0, body |-> "none"]

Returns(value, requests) == [raised |-> FALSE, value |-> value, requests |-> requests]

\* lines 255-262
ErrorMsg(status, text) ==
    <<"API Error: Status ", ToString(status)>> \o
        (IF status = 401
            THEN <<" - Invalid API key. Please check your DEEPSEEK_API_KEY in .env file.">>
         ELSE IF status = 429
            THEN <<" - Rate limit exceeded or insufficient credits.">>
         ELSE <<" - ", text>>)

\* ask_deepseek posting again after a failed request
ask_deepseekRetry(q, ctx, key, r) ==
    IF key = None \/ key = ""
    THEN Returns(Str(<<"Error: API key not configured. Please check your .env file.">>), 0)
    ELSE IF r.transport # "ok" THEN Returns(Str(<<"Network Error: ", r.transport>>), 2)
    ELSE IF r.status = 200
         THEN IF r.body = "content_str" THEN Returns(Str(Completion), 1)
              ELSE IF r.body = "content_null" THEN Returns(PyNone, 1)
              ELSE Returns(Str(<<"Network Error: ", r.body>>), 1)
    ELSE Returns(Str(ErrorMsg(r.status, r.body)), 1)

\* ask_deepseek with the messages of 401 and 429 exchanged
ask_deepseekSwapped(q, ctx, key, r) ==
    IF key = None \/ key = ""
    THEN Returns(Str(<<"Error: API key not configured. Please check your .env file.">>), 0)
    ELSE IF r.transport # "ok" THEN Returns(Str(<<"Network Error: ", r.transport>>), 1)
    ELSE IF r.status = 200
         THEN IF r.body = "content_str" THEN Returns(Str(Completion), 1)
              ELSE IF r.body = "content_null" THEN Returns(PyNone, 1)
              ELSE Returns(Str(<<"Network Error: ", r.body>>), 1)
    ELSE Returns(Str(ErrorMsg(IF r.status = 401 THEN 429
                              ELSE IF r.status = 429 THEN 401 ELSE r.status, r.body)), 1)

\* ask_deepseek(question, context): whether it raised, the value it returned
\* and the number of requests it posted.  The prompt built at lines 228-242
\* goes to the remote endpoint only; what the endpoint does is r.
ask_deepseek(q, ctx, key, r) ==
    IF key = None \/ key = ""
    THEN Returns(Str(<<"Error: API key not configured. Please check your .env file.">>), 0)
    ELSE IF r.transport # "ok" THEN Returns(Str(<<"Network Error: ", r.transport>>), 1)
    ELSE IF r.status = 200
         THEN IF r.body = "content_str" THEN Returns(Str(Completion), 1)
              ELSE IF r.body = "content_null" THEN Returns(PyNone, 1)
              ELSE Returns(Str(<<"Network Error: ", r.body>>), 1)
    ELSE Returns(Str(ErrorMsg(r.status, r.body)), 1)

----------------------------------------------------------------------------
(* The chat handler's results *)

PleaseProvide == [response |-> <<"Please provide a question">>, success |-> FALSE]
ServerError(msg) == [response |-> <<"Server Error: ", msg>>, success |-> FALSE]
NoResult == [response |-> <<>>, success |-> FALSE]

\* request bodies: not JSON (get_json raises), JSON that is no object
\* (data.get raises), or an object with or without a question
Questions == {Missing, Given(<<>>), Given(<<"W", "h", "o", "?">>)}
Bodies ==
    {[kind |-> k, question |-> Missing] : k \in {"invalid_json", "not_object"}}
        \cup {[kind |-> "object", question |-> q] : q \in Questions}
NoData == [kind |-> "none", question |-> Missing]

\* lines 305-318 reporting failure for every error string
ChatRespondStrict(ans) ==
    IF ans.raised THEN ServerError("ask_deepseek raised")
    ELSE IF ans.value.type # "str"
         THEN ServerError("object of type 'NoneType' has no len()")
    ELSE [response |-> ans.value.value,
          success |-> Head(ans.value.value) \notin {"Network Error: ", "API Error: Status "}]

\* lines 305-318: the JSON returned once ask_deepseek has returned
ChatRespond(ans) ==
    IF ans.raised THEN ServerError("ask_deepseek raised")
    ELSE IF ans.value.type # "str"
         THEN ServerError("object of type 'NoneType' has no len()")
    ELSE [response |-> ans.value.value, success |-> TRUE]

----------------------------------------------------------------------------
(* Initial state: a fresh deployment, the process not yet started *)

ChatIdle ==
    /\ chatPc = "idle"
    /\ data = NoData
    /\ question = <<>>
    /\ results = NoResults
    /\ context = <<>>
    /\ remote = NotCalled
    /\ requestsIssued = 0
    /\ answer = Unset
    /\ chatResult = NoResult

NoResetResult == [success |-> FALSE, message |-> "none"]
ResetFailed == [success |-> FALSE, message |-> "Error resetting ChromaDB"]
ResetDone == [success |-> TRUE, message |-> "ChromaDB reset successfully"]

ResetIdle ==
    /\ resetPc = "idle"
    /\ resetLocal = None
    /\ resetResult = NoResetResult

ProcessDown ==
    /\ dirExists = FALSE
    /\ persisted = NoCollection
    /\ staleDocs = <<>>
    /\ chroma_collection = None
    /\ startPc = "down"
    /\ setupLog = "none"
    /\ loadLog = "none"
    /\ ResetIdle
    /\ ChatIdle

Init ==
    /\ doc \in Docs
    /\ DEEPSEEK_API_KEY \in ApiKeys
    /\ ProcessDown
    /\ cText = <<>>
    /\ cSize = 1
    /\ cChunks = <<>>
    /\ cPhase = "off"

----------------------------------------------------------------------------
(* Startup: the module-level code, lines 206-215 *)

\* line 208: chroma_collection = setup_chromadb(); the new process holds no
\* handle from before
StartupSetup ==
    /\ startPc = "down"
    /\ \E env \in SetupEnvs :
          LET r == SetupChromadb(dirExists, persisted, env)
          IN  /\ dirExists' = r.dirExists
              /\ persisted' = r.persisted
              /\ chroma_collection' = r.handle
              /\ setupLog' = r.log
    /\ startPc' = "loading"
    /\ UNCHANGED <<envVars, staleDocs, loadLog, resetVars, chatVars, chunkVars>>

\* lines 211-215: load the document when the collection is available
StartupLoad ==
    /\ startPc = "loading"
    /\ IF chroma_collection # None
       THEN \E fault \in LoadFaults(NumChunks(doc)) :
               LET r == LoadDocument(persisted.records, doc, fault)
               IN  /\ persisted' = Collection(r.records)
                   /\ loadLog' = r.log
       ELSE UNCHANGED <<persisted, loadLog>>
    /\ startPc' = "serving"
    /\ UNCHANGED <<envVars, dirExists, staleDocs, chroma_collection, setupLog,
                   resetVars, chatVars, chunkVars>>

\* the process stops between requests; the directory chroma_db stays on disk
Shutdown ==
    /\ startPc = "serving"
    /\ chatPc = "idle"
    /\ resetPc = "idle"
    /\ startPc' = "down"
    /\ chroma_collection' = None
    /\ staleDocs' = <<>>
    /\ setupLog' = "none"
    /\ loadLog' = "none"
    /\ UNCHANGED <<envVars, dirExists, persisted, resetVars, chatVars, chunkVars>>

\* the operator replaces or removes MLTrainingDoc.txt while the process is down
ReplaceDocument ==
    /\ startPc = "down"
    /\ doc' \in Docs \ {doc}
    /\ UNCHANGED <<DEEPSEEK_API_KEY, storeVars, startPc, logVars, resetVars,
                   chatVars, chunkVars>>

----------------------------------------------------------------------------
(* reset_chroma, lines 367-391 *)

\* lines 375-377: remove the directory; a failure goes to the handler at 387
ResetRmtree ==
    /\ startPc = "serving"
    /\ resetPc = "idle"
    /\ \E rmtreeOk \in BOOLEAN :
          IF dirExists /\ ~rmtreeOk
          THEN /\ resetPc' = "done"
               /\ resetResult' = ResetFailed
               /\ UNCHANGED storeVars
          ELSE /\ resetPc' = "setup"
               /\ resetResult' = resetResult
               /\ dirExists' = FALSE
               /\ persisted' = NoCollection
               /\ staleDocs' = IF dirExists THEN AfterWipe(persisted, staleDocs)
                               ELSE staleDocs
               /\ chroma_collection' = IF dirExists THEN Dangle(chroma_collection)
                                       ELSE chroma_collection
    /\ UNCHANGED <<envVars, startPc, logVars, resetLocal, chatVars, chunkVars>>

\* line 379, the call: setup_chromadb()
ResetSetup ==
    /\ resetPc = "setup"
    /\ \E env \in SetupEnvs :
          LET r == SetupChromadb(dirExists, persisted, env)
          IN  /\ dirExists' = r.dirExists
              /\ persisted' = r.persisted
              /\ staleDocs' = IF r.wiped THEN AfterWipe(persisted, staleDocs) ELSE staleDocs
              /\ chroma_collection' = IF r.wiped THEN Dangle(chroma_collection)
                                      ELSE chroma_collection
              /\ resetLocal' = r.handle
              /\ setupLog' = r.log
    /\ resetPc' = "assign"
    /\ UNCHANGED <<envVars, startPc, loadLog, resetResult, chatVars, chunkVars>>

\* line 379, the assignment to the global
ResetAssign ==
    /\ resetPc = "assign"
    /\ chroma_collection' = resetLocal
    /\ resetPc' = "load"
    /\ UNCHANGED <<envVars, dirExists, persisted, staleDocs, startPc, logVars,
                   resetLocal, resetResult, chatVars, chunkVars>>

\* lines 380-386: reload the document and report success
ResetLoad ==
    /\ resetPc = "load"
    /\ IF chroma_collection # None
       THEN \E fault \in LoadFaults(NumChunks(doc)) :
               LET r == LoadDocument(persisted.records, doc, fault)
               IN  /\ persisted' = Collection(r.records)
                   /\ loadLog' = r.log
       ELSE UNCHANGED <<persisted, loadLog>>
    /\ resetResult' = ResetDone
    /\ resetPc' = "done"
    /\ UNCHANGED <<envVars, dirExists, staleDocs, chroma_collection, startPc,
                   setupLog, resetLocal, chatVars, chunkVars>>

\* the response is delivered
ResetReturn ==
    /\ resetPc = "done"
    /\ resetPc' = "idle"
    /\ resetLocal' = None
    /\ resetResult' = NoResetResult
    /\ UNCHANGED <<envVars, storeVars, startPc, logVars, chatVars, chunkVars>>

----------------------------------------------------------------------------
(* chat, lines 268-318 *)

\* lines 271-280: read the body and the question
ChatReceive ==
    /\ startPc = "serving"
    /\ chatPc = "idle"
    /\ \E body \in Bodies :
          /\ data' = body
          /\ IF body.kind # "object"
             THEN /\ question' = <<>>
                  /\ chatResult' = ServerError(body.kind)
                  /\ chatPc' = "done"
             ELSE /\ question' = body.question.text
                  /\ IF body.question.text = <<>>
                     THEN /\ chatResult' = PleaseProvide
                          /\ chatPc' = "done"
                     ELSE /\ chatResult' = chatResult
                          /\ chatPc' = "retrieve"
    /\ UNCHANGED <<envVars, storeVars, startPc, logVars, resetVars, results, context,
                   remote, requestsIssued, answer, chunkVars>>

\* lines 283-284 and 299-300: context = "" and the test of the global
ChatCheckCollection ==
    /\ chatPc = "retrieve"
    /\ context' = <<>>
    /\ chatPc' = IF chroma_collection # None THEN "query" ELSE "ask"
    /\ UNCHANGED <<envVars, storeVars, startPc, logVars, resetVars, data, question,
                   results, remote, requestsIssued, answer, chatResult, chunkVars>>

\* lines 285-298: the query through the global as it is now, and the join
ChatQuery ==
    /\ chatPc = "query"
    /\ \E result \in QueryOutcomes(chroma_collection, persisted, staleDocs) :
          LET r == Retrieve(result)
          IN  /\ results' = result
              /\ context' = r.context
              /\ chatPc' = IF r.raised THEN "done" ELSE "ask"
              /\ chatResult' = IF r.raised THEN ServerError("query raised") ELSE chatResult
    /\ UNCHANGED <<envVars, storeVars, startPc, logVars, resetVars, data, question,
                   remote, requestsIssued, answer, chunkVars>>

\* lines 303-318: the remote call and the response; the handler returns and
\* its locals context and results are gone
ChatAsk ==
    /\ chatPc = "ask"
    /\ \E r \in Remotes :
          LET ans == ask_deepseek(question, context, DEEPSEEK_API_KEY, r)
          IN  /\ remote' = IF ans.requests = 0 THEN NotCalled ELSE r
              /\ requestsIssued' = ans.requests
              /\ answer' = IF ans.raised THEN Unset ELSE ans.value
              /\ chatResult' = ChatRespond(ans)
    /\ results' = NoResults
    /\ context' = <<>>
    /\ chatPc' = "done"
    /\ UNCHANGED <<envVars, storeVars, startPc, logVars, resetVars, data, question,
                   chunkVars>>

\* the response is delivered
ChatReturn ==
    /\ chatPc = "done"
    /\ chatPc' = "idle"
    /\ data' = NoData
    /\ question' = <<>>
    /\ results' = NoResults
    /\ context' = <<>>
    /\ remote' = NotCalled
    /\ requestsIssued' = 0
    /\ answer' = Unset
    /\ chatResult' = NoResult
    /\ UNCHANGED <<envVars, storeVars, startPc, logVars, resetVars, chunkVars>>

----------------------------------------------------------------------------
(* The service *)

Next ==
    \/ StartupSetup
    \/ StartupLoad
    \/ Shutdown
    \/ ReplaceDocument
    \/ ResetRmtree
    \/ ResetSetup
    \/ ResetAssign
    \/ ResetLoad
    \/ ResetReturn
    \/ ChatReceive
    \/ ChatCheckCollection
    \/ ChatQuery
    \/ ChatAsk
    \/ ChatReturn

Spec == Init /\ [][Next]_vars

----------------------------------------------------------------------------
(* Chunking in isolation: lines 159-160 applied to every short text *)

TextsUpTo(n) == UNION {[1..k -> Alphabet] : k \in 0..n}

InitChunk ==
    /\ doc = NoDoc
    /\ DEEPSEEK_API_KEY = None
    /\ ProcessDown
    /\ cText \in TextsUpTo(MaxLen)
    /\ cSize \in 1..MaxSize
    /\ cChunks = <<>>
    /\ cPhase = "input"

ChunkText ==
    /\ cPhase = "input"
    /\ cChunks' = Chunk(cText, cSize)
    /\ cPhase' = "done"
    /\ UNCHANGED <<envVars, storeVars, startPc, logVars, resetVars, chatVars, cText, cSize>>

NextChunk == ChunkText

SpecChunk == InitChunk /\ [][NextChunk]_vars

----------------------------------------------------------------------------
(* Properties *)

\* the chat handler has returned for a request that carried a question
Asked == chatPc = "done" /\ data.kind = "object" /\ question # <<>> /\ answer # Unset

\* the remote endpoint received a request
Requested == Asked /\ requestsIssued > 0

\* C1 as stated: success is false exactly when the question is missing or
\* empty, and then the response is "Please provide a question"; a malformed
\* body, a store failure and a remote failure all report success
C1_SuccessFalseOnlyWithoutQuestion ==
    chatPc = "done" =>
        /\ chatResult.success = FALSE <=>
              (data.kind = "object" /\ data.question.text = <<>>)
        /\ chatResult.success = FALSE => chatResult = PleaseProvide

\* C1 amended: success is false exactly when the question is missing or empty
\* (response "Please provide a question") or an exception reaches the handler
\* at line 312 (the body is not a JSON object, the completion is not a
\* string), and then the response begins "Server Error: "; every other outcome
\* reports success with the answer as the response
C1_SuccessFalseWithoutQuestionOrOnException ==
    chatPc = "done" =>
        /\ chatResult.success = FALSE <=>
              \/ data.kind # "object"
              \/ data.question.text = <<>>
              \/ answer.type = "NoneType"
        /\ (data.kind = "object" /\ data.question.text = <<>>) => chatResult = PleaseProvide
        /\ (data.kind # "object" \/ answer.type = "NoneType") =>
              Head(chatResult.response) = "Server Error: "
        /\ chatResult.success => (answer.type = "str" /\ chatResult.response = answer.value)

\* C1 witness: a body that is not JSON was answered with success false
C1_Witness ==
    /\ chatPc = "done"
    /\ data.kind = "invalid_json"
    /\ chatResult.success = FALSE
    /\ Head(chatResult.response) = "Server Error: "

\* C2 as stated: whatever the key, the transport, the status and the body,
\* ask_deepseek returns a string
C2_AlwaysReturnsString == Asked => answer.type = "str"

\* C3 as stated: every call of ask_deepseek posts exactly one request
C3_ExactlyOneRequest == Asked => requestsIssued = 1

\* C3 amended: a call of ask_deepseek posts exactly one request when
\* DEEPSEEK_API_KEY is set, whatever the outcome of the request, and none when
\* the key is not configured
C3_OneRequestWhenKeySet ==
    Asked => requestsIssued = (IF DEEPSEEK_API_KEY \in {None, ""} THEN 0 ELSE 1)

\* C3 witness: a request that timed out was not repeated
C3_Witness ==
    /\ Asked
    /\ remote.transport = "timeout"
    /\ requestsIssued = 1

\* a record of the collection is gone after the step
RecordRemoved == \E k \in 1..Len(persisted.records) :
                    \A j \in 1..Len(persisted'.records) :
                        persisted'.records[j] # persisted.records[k]

\* C4 as stated: opening the store at startup, when it yields a collection,
\* leaves every chunk of the persisted collection in place; chunks are
\* removed by an explicit reset only
C4_StartupKeepsPersistedChunks ==
    [][(startPc = "down" /\ startPc' = "loading" /\ chroma_collection' # None)
          => ~RecordRemoved]_vars

\* a step that runs load_document_to_chroma
LoadStep ==
    \/ startPc = "loading" /\ startPc' = "serving" /\ chroma_collection # None
    \/ resetPc = "load" /\ resetPc' = "done" /\ chroma_collection # None

NoFault(d) == [op |-> "none", written |-> NumChunks(d)]

\* C5: load_document_to_chroma changes the collection only when it holds no
\* record before the call, and loading twice in a row leaves what loading once
\* leaves
C5_LoadOnlyIntoEmptyCollection ==
    /\ [][LoadStep /\ persisted.records # <<>> => persisted' = persisted]_vars
    /\ [](LET once == LoadDocument(persisted.records, doc, NoFault(doc)).records
          IN  LoadDocument(once, doc, NoFault(doc)).records = once)

\* C5 witness: the document was loaded into a collection that held a partial load
C5_Witness ==
    /\ loadLog = "already_loaded"
    /\ startPc = "serving"
    /\ Len(persisted.records) > 0
    /\ Len(persisted.records) < NumChunks(doc)

\* the text with its whitespace-only slices of the given size removed
RECURSIVE DropBlankSlices(_, _)
DropBlankSlices(t, size) ==
    IF t = <<>> THEN <<>>
    ELSE LET n == Min(size, Len(t))
             head == SubSeq(t, 1, n)
         IN  (IF IsBlank(head) THEN <<>> ELSE head)
                 \o DropBlankSlices(SubSeq(t, n + 1, Len(t)), size)

\* C6: the chunks are slices t[j*s : (j+1)*s] in increasing j, none blank,
\* each of length at most s, all but the last of length s, and their
\* concatenation is the text without its whitespace-only slices
C6_ChunksAreTheNonBlankSlices ==
    cPhase = "done" =>
        /\ \A k \in 1..Len(cChunks) :
              /\ ~IsBlank(cChunks[k])
              /\ Len(cChunks[k]) <= cSize
              /\ k < Len(cChunks) => Len(cChunks[k]) = cSize
        /\ LET n == (Len(cText) + cSize - 1) \div cSize
               kept == {j \in 0..(n - 1) :
                           \E i \in (j * cSize + 1)..Min((j + 1) * cSize, Len(cText)) :
                               cText[i] \notin Whitespace}
           IN  /\ Len(cChunks) = Cardinality(kept)
               /\ \A j \in kept :
                     cChunks[Cardinality({x \in kept : x < j}) + 1]
                         = SubSeq(cText, j * cSize + 1, Min((j + 1) * cSize, Len(cText)))
        /\ Concat(cChunks) = DropBlankSlices(cText, cSize)

\* C6 witness: a text of which a blank slice was dropped and whose last
\* chunk is short
C6_Witness ==
    /\ cPhase = "done"
    /\ Len(cChunks) >= 2
    /\ Len(Concat(cChunks)) < Len(cText)
    /\ Len(cChunks[Len(cChunks)]) < cSize

\* the records the collection behind the global may answer a query from
Visible ==
    IF chroma_collection = None THEN <<>>
    ELSE IF chroma_collection = "attached" THEN persisted.records
    ELSE staleDocs \o persisted.records

\* texts joined by newlines, written out for up to n_results texts
NewlineJoined(ds) ==
    IF Len(ds) = 1 THEN ds[1]
    ELSE IF Len(ds) = 2 THEN Cat(Cat(ds[1], <<Run("\n", 1)>>), ds[2])
    ELSE Cat(Cat(Cat(Cat(ds[1], <<Run("\n", 1)>>), ds[2]), <<Run("\n", 1)>>), ds[3])

\* C7: the retrieval step never leaves the handler; it yields the empty
\* context when the global is None, when the collection holds no chunks and when
\* the query fails, and otherwise the newline-join of the at most n_results
\* chunk texts the query returned, in the order returned
C7_RetrievalDegradesToEmptyContext ==
    [][/\ (chatPc = "retrieve" /\ chatPc' # "retrieve") =>
              /\ context' = <<>>
              /\ chroma_collection = None => chatPc' = "ask"
       /\ (chatPc = "query" /\ chatPc' # "query") =>
              /\ chatPc' = "ask"
              /\ (chroma_collection = None \/ Visible = <<>> \/ results'.raised) =>
                    context' = <<>>
              /\ (~results'.raised /\ results'.documents # <<>>) =>
                    /\ Len(results'.documents) \in 1..n_results
                    /\ \A k \in 1..Len(results'.documents) :
                          results'.documents[k] \in Texts(Visible)
                    /\ context' = NewlineJoined(results'.documents)
              /\ context' # <<>> => (~results'.raised /\ results'.documents # <<>>)
      ]_vars

\* C7 witness: a query against a collection of more than n_results chunks
\* returned n_results texts whose join is the context
C7_Witness ==
    /\ chatPc = "ask"
    /\ chroma_collection = "attached"
    /\ Len(persisted.records) > n_results
    /\ Len(results.documents) = n_results
    /\ context = NewlineJoined(results.documents)

\* the value at choices[0].message.content of a response body
Absent == [type |-> "absent", value |-> <<>>]
ContentOf(body) ==
    IF body = "content_str" THEN Str(Completion)
    ELSE IF body = "content_null" THEN PyNone
    ELSE Absent

\* the answers to the statuses other than 200 and to a failed transport
C8_ErrorAnswers ==
    /\ remote.transport # "ok" =>
          (answer.type = "str" /\ Head(answer.value) = "Network Error: ")
    /\ remote.status = 401 =>
          answer = Str(<<"API Error: Status ", "401",
                  " - Invalid API key. Please check your DEEPSEEK_API_KEY in .env file.">>)
    /\ remote.status = 429 =>
          answer = Str(<<"API Error: Status ", "429",
                         " - Rate limit exceeded or insufficient credits.">>)
    /\ (remote.transport = "ok" /\ remote.status \notin {200, 401, 429}) =>
          answer = Str(<<"API Error: Status ", ToString(remote.status), " - ", remote.body>>)

\* C8 as stated: a 200 is answered with choices[0].message.content, a 401 with
\* the invalid-key message, a 429 with the rate-limit message, another status
\* with the status and the body, a failed transport with a network error
C8_StatusMapsToAnswer ==
    Requested =>
        /\ remote.status = 200 => answer = ContentOf(remote.body)
        /\ C8_ErrorAnswers

\* C8 amended: a 200 whose body carries choices[0].message.content is answered
\* with that value; a 200 whose body is not JSON or lacks that path is answered,
\* like a failed transport, with a string beginning "Network Error: "; the
\* other statuses as stated
C8_StatusAndBodyMapToAnswer ==
    Requested =>
        /\ (remote.status = 200 /\ ContentOf(remote.body) # Absent) =>
              answer = ContentOf(remote.body)
        /\ (remote.status = 200 /\ ContentOf(remote.body) = Absent) =>
              (answer.type = "str" /\ Head(answer.value) = "Network Error: ")
        /\ C8_ErrorAnswers

\* C8 witness: a 401 was answered with the invalid-key message
C8_Witness ==
    /\ Requested
    /\ remote.status = 401
    /\ answer.value[3] =
          " - Invalid API key. Please check your DEEPSEEK_API_KEY in .env file."

\* the slices of a document that carry text, counted one by one
NonBlankSlices ==
    [d \in Docs |->
        LET content == Unpack(d.content)
            n == (Len(content) + chunk_size - 1) \div chunk_size
        IN  {j \in 0..(n - 1) :
                \E i \in (j * chunk_size + 1)..Min((j + 1) * chunk_size, Len(content)) :
                    content[i] \notin Whitespace}]

\* the slice content[j*chunk_size : (j+1)*chunk_size] of each document
SliceText ==
    [d \in Docs |->
        [j \in NonBlankSlices[d] |->
            Pack(Slice(Unpack(d.content), j * chunk_size, chunk_size))]]

\* reset_chroma ran to its end and no call to the store failed on the way
ResetCompleted ==
    /\ resetPc = "done"
    /\ resetResult.success
    /\ setupLog \in {"created_new", "created_after_error"}
    /\ loadLog # "error_adding"

ChatStep == chatPc' # chatPc

\* the chat handler assigns neither the global nor anything in the store
ChatLeavesStoreAlone == [][ChatStep => UNCHANGED storeVars]_vars

\* C10 as stated: a chat request that carried a question and ran while a reset
\* was under way completes with success true
C10_ChatSucceedsDuringReset ==
    (chatPc = "done" /\ data.kind = "object" /\ data.question.text # <<>>
        /\ resetPc # "idle") => chatResult.success

====
